---- MODULE Spec2Model ----
(***************************************************************************)
(* Permission Analyzer: the page-context script (injected.js) that wraps   *)
(* the permission-gated browser APIs and decides, through                  *)
(* notifyPermissionUsage and the location rules, which calls are           *)
(* dispatched as PERMISSION_DETECTED usage events; the content script      *)
(* (content.js) that forwards these events; and the background service     *)
(* worker that logs them, counts them on the badge and raises alerts.      *)
(*                                                                         *)
(* One page context is modelled.  Time is the value Date.now() returns; it *)
(* advances only by the Tick action, every handler runs at one instant.    *)
(* An asynchronous function of the service worker is a sequence of steps,  *)
(* one for each storage operation it awaits.                               *)
(***************************************************************************)
EXTENDS Integers, Sequences, FiniteSets, TLC

VARIABLES
  now,                  \* Date.now()
  loggedEvents,         \* Map eventKey -> time of the last dispatch
  lastLogTime,          \* locationTracking.lastLogTime
  activeWatchers,       \* locationTracking.activeWatchers
  isUnloading,          \* locationTracking.isUnloading
  lastVisibilityChange, \* locationTracking.lastVisibilityChange
  nextWatchId,          \* the id the browser gives to the next watch
  watching,             \* watch ids the browser still delivers positions to
  callbackCount,        \* the callbackCount closure variable of each of them
  visibilityState,      \* document.visibilityState
  tracks,               \* the MediaStreamTracks of the streams granted
  lastOp,               \* the handler that ran last, what the underlying
                        \* capability did and what the caller observed
  fed,                  \* signals passed to notifyPermissionUsage by lastOp
  out,                  \* PERMISSION_DETECTED events dispatched by lastOp
  lastEmit,             \* history: key -> time of its last dispatched event
  oneShotSeen,          \* history: a getCurrentPosition success was delivered
  unpurged,             \* the map of a debouncer that is fed the same signals
                        \* and never cleans its map
  refOut,               \* the events that debouncer dispatched for lastOp
  channel,              \* PERMISSION_USAGE messages sent, not yet delivered
  handlers,             \* the handlePermissionUsage calls in flight
  storage,              \* chrome.storage.local
  newLogsCount,         \* newLogsCount of the service worker
  badgeText,            \* the text last given to chrome.action.setBadgeText
  notificationTracker,  \* Map notificationKey -> time of the last alert
  lastAlert,            \* history: notificationKey -> time of its last alert
  bgOp,                 \* the step of content script or service worker that
                        \* ran last, with its response and its alerts
  sentCount,            \* history: events the content script has forwarded
  received,             \* history: ids of the events the worker was handed
  submitted,            \* history: the entries made of these events
  clearedIds,           \* history: ids in the stored log at a Clear logs
  ackedSettings         \* history: the record of the last acknowledged update

vars == <<now, loggedEvents, lastLogTime, activeWatchers, isUnloading,
          lastVisibilityChange, nextWatchId, watching, callbackCount,
          visibilityState, tracks, lastOp, fed, out, lastEmit, oneShotSeen,
          unpurged, refOut,
          channel, handlers, storage, newLogsCount, badgeText,
          notificationTracker, lastAlert, bgOp, sentCount, received,
          submitted, clearedIds, ackedSettings>>

locVars == <<lastLogTime, activeWatchers, isUnloading, lastVisibilityChange,
             nextWatchId, watching, callbackCount, oneShotSeen>>

\* the state of the service worker and of the messages on their way to it
workerVars == <<channel, handlers, storage, newLogsCount, badgeText,
                notificationTracker, lastAlert, sentCount, received,
                submitted, clearedIds, ackedSettings>>

\* the state of the page-context script
pageVars == <<loggedEvents, lastEmit, locVars, tracks, lastOp, fed, out,
              unpurged, refOut>>

----------------------------------------------------------------------------
(* Program constants *)

DEBOUNCE_TIME == 500
MIN_LOG_INTERVAL == 5000
PURGE_AGE == 5000
VISIBILITY_WINDOW == 2000
MAX_LOGS == 1000
NOTIFICATION_COOLDOWN == 3000
TRACKER_PURGE_AGE == 10000

(* Bounds of the model *)

StartTime == 10000      \* Date.now() when the page context is created
MaxWatches == 2         \* watch ids the browser hands out
MaxCallbacks == 2       \* success callbacks followed per watch
MaxTracks == 2          \* wrapped media tracks alive at a time
MaxEvents == 2          \* usage events the content script forwards
MaxInFlight == 2        \* handlePermissionUsage calls in flight at a time

\* the instants, in ms after StartTime, at which handlers are run
Offsets == {0, 100, 500, 2000, 5000, 5100}
TimePoints == {StartTime + o : o \in Offsets}
\* the instants used where the 2 s and 5 s location rules are followed
LocationOffsets == {0, 100, 2000, 5000}
LocationTimePoints == {StartTime + o : o \in LocationOffsets}
\* the instants used where only the 500 ms debounce matters
ShortOffsets == {0, 500}
ShortTimePoints == {StartTime + o : o \in ShortOffsets}
\* the instants used where the 3 s alert cooldown is followed
WorkerOffsets == {0, 3000}
WorkerTimePoints == {StartTime + o : o \in WorkerOffsets}
\* the instants used where the purge of the alert tracker is followed too
AlertOffsets == {0, 2900, 3000, 13000}
AlertTimePoints == {StartTime + o : o \in AlertOffsets}

WatchIds == 1..MaxWatches
TrackIds == 1..MaxTracks

----------------------------------------------------------------------------
(* Values *)

PermissionTypes == {"camera", "microphone", "location", "clipboard-read",
                    "clipboard-write", "notifications"}

\* `${permissionType}-${action}`
EventKey(permissionType, action) == permissionType \o "-" \o action

Keys == {EventKey("camera", "active"), EventKey("microphone", "active"),
         EventKey("camera", "stopped"), EventKey("microphone", "stopped"),
         EventKey("location", "accessed"),
         EventKey("clipboard-read", "accessed"),
         EventKey("clipboard-write", "accessed"),
         EventKey("notifications", "shown")}

\* A JavaScript value as far as the wrappers look at it
Val(type, len) == [type |-> type, len |-> len]
Undefined == Val("undefined", 0)
Null == Val("null", 0)
Stream == Val("stream", 0)
Position == Val("position", 0)
NotificationObj == Val("notification", 0)
Errors == {Val("NotAllowedError", 0), Val("TypeError", 0)}
\* the GeolocationPositionError given to an error callback
PositionErrors == {Val("PERMISSION_DENIED", 0)}

\* what a capability did: resolved/returned (ok) or rejected/threw
Outcome(ok, val) == [ok |-> ok, val |-> val]

Op(name, under, seen, video, audio, id) ==
  [op |-> name, under |-> under, seen |-> seen,
   video |-> video, audio |-> audio, id |-> id, firstOneShot |-> FALSE,
   calls |-> 0]

\* the first success callback ever delivered to a getCurrentPosition wrapper
FirstOneShot(op) == [op EXCEPT !.firstOneShot = TRUE]

\* the page's successCallback was invoked n times with the value seen
Called(op, n) == [op EXCEPT !.calls = n]

NoOp == Op("init", Outcome(TRUE, Undefined), Outcome(TRUE, Undefined),
           FALSE, FALSE, 0)

\* A step of the content script or of the service worker: its name, the
\* usage event it is about (0: none), the response given to the sender of
\* the message and the desktop alerts created
BgOp(name, id, reply, alerts) ==
  [op |-> name, id |-> id, reply |-> reply, alerts |-> alerts,
   detail |-> [none |-> TRUE]]

\* the step of the PERMISSION_DETECTED listener for an event with this detail
Heard(op, detail) == [op EXCEPT !.detail = detail]

\* the step ended with its storage operation answered (ok) or failed
Answered(op, ok) == [op EXCEPT !.detail = [ok |-> ok]]

NoReply == [none |-> TRUE]
\* sendResponse({ success: true })
Success == [success |-> TRUE]
\* sendResponse({ logs })
LogsReply(logs) == [logs |-> logs]
\* console.debug('[Permission Analyzer] Send failed:', err.message)
SendFailedDebug == [debug |-> "Send failed"]

\* { notificationsEnabled: true }
DefaultSettings == [notificationsEnabled |-> TRUE]
\* the records an UPDATE_SETTINGS message can carry: the two the popup
\* sends and one without the notificationsEnabled field
SettingsValues == {[notificationsEnabled |-> TRUE],
                   [notificationsEnabled |-> FALSE],
                   [theme |-> "dark"]}

\* chrome.storage.local is a function from the keys present to their values.
\* What chrome.runtime.onInstalled leaves: logs [] and the default settings
InstalledStorage == [logs |-> << >>, settings |-> DefaultSettings]
\* a store in which neither key was written yet
EmptyStorage == << >>

\* window.location.hostname of the page
Hostname == "site.example"
\* window.location.hostname of a page of another site, in another tab
OtherHostname == "other.example"

----------------------------------------------------------------------------
(* DEDUPLICATION SYSTEM *)

\* The part of the state notifyPermissionUsage reads and writes
Dedup(le, em, f, o) == [loggedEvents |-> le, lastEmit |-> em, fed |-> f, out |-> o]

\* loggedEvents.set(key, t)
MapSet(m, key, t) == [k \in (DOMAIN m) \cup {key} |-> IF k = key THEN t ELSE m[k]]

\* a loop that also deletes the entries that are 5 seconds old
CleanOldInclusive(m, t) ==
  [k \in {j \in DOMAIN m : ~(t - m[j] >= PURGE_AGE)} |-> m[k]]

\* a loop that takes the 5 seconds for 5 units of the millisecond clock
CleanOldSeconds(m, t) == [k \in {j \in DOMAIN m : ~(t - m[j] > 5)} |-> m[k]]

\* the loop deleting the entries older than 5 seconds
CleanOld(m, t) == [k \in {j \in DOMAIN m : ~(t - m[j] > PURGE_AGE)} |-> m[k]]

\* a debounce window that also covers its end
IsDuplicateInclusive(m, key, t) == key \in DOMAIN m /\ t - m[key] <= DEBOUNCE_TIME

\* one window for the signals of all the keys
IsDuplicateAnyKey(m, key, t) ==
  \E k \in DOMAIN m : t - m[k] < DEBOUNCE_TIME

\* the early return of notifyPermissionUsage
IsDuplicate(m, key, t) == key \in DOMAIN m /\ t - m[key] < DEBOUNCE_TIME

\* a debouncer that records the time of a rejected signal too
notifyPermissionUsageSliding(d, permissionType, action, t) ==
  LET eventKey == EventKey(permissionType, action)
      signal == [permissionType |-> permissionType, action |-> action]
  IN IF IsDuplicate(d.loggedEvents, eventKey, t)
       THEN [d EXCEPT !.loggedEvents = MapSet(@, eventKey, t),
                      !.fed = Append(@, signal)]
       ELSE [d EXCEPT !.loggedEvents = CleanOld(MapSet(@, eventKey, t), t),
                      !.lastEmit = MapSet(@, eventKey, t),
                      !.fed = Append(@, signal),
                      !.out = Append(@, signal)]

notifyPermissionUsage(d, permissionType, action, t) ==
  LET eventKey == EventKey(permissionType, action)
      signal == [permissionType |-> permissionType, action |-> action]
  IN IF IsDuplicate(d.loggedEvents, eventKey, t)
       THEN [d EXCEPT !.fed = Append(@, signal)]
       ELSE [d EXCEPT !.loggedEvents = CleanOld(MapSet(@, eventKey, t), t),
                      !.lastEmit = MapSet(@, eventKey, t),
                      !.fed = Append(@, signal),
                      !.out = Append(@, signal)]

\* notifyPermissionUsage without the loop that cleans the old entries, on a
\* map and the events dispatched so far
notifyWithoutPurge(r, permissionType, action, t) ==
  LET eventKey == EventKey(permissionType, action)
      signal == [permissionType |-> permissionType, action |-> action]
  IN IF IsDuplicate(r.map, eventKey, t)
       THEN r
       ELSE [map |-> MapSet(r.map, eventKey, t), out |-> Append(r.out, signal)]

\* the same signals, in their order, given to notifyWithoutPurge
RECURSIVE FeedWithoutPurge(_, _, _)
FeedWithoutPurge(r, signals, t) ==
  IF signals = << >> THEN r
  ELSE FeedWithoutPurge(notifyWithoutPurge(r, Head(signals).permissionType,
                                           Head(signals).action, t),
                        Tail(signals), t)

\* the state a handler starts from: nothing fed, nothing dispatched yet
Start == Dedup(loggedEvents, lastEmit, <<>>, <<>>)

\* what a handler that called notifyPermissionUsage leaves in the page
CommitPage(d) ==
  /\ loggedEvents' = d.loggedEvents
  /\ lastEmit' = d.lastEmit
  /\ fed' = d.fed
  /\ out' = d.out
  /\ LET r == FeedWithoutPurge([map |-> unpurged, out |-> << >>], d.fed, now)
     IN /\ unpurged' = r.map
        /\ refOut' = r.out

\* the same, the events dispatched being followed no further
Commit(d) ==
  /\ CommitPage(d)
  /\ UNCHANGED <<workerVars, bgOp>>

----------------------------------------------------------------------------
\* the page when injected.js has run
InitPage ==
  /\ now = StartTime
  /\ loggedEvents = << >>
  /\ lastLogTime = 0
  /\ activeWatchers = {}
  /\ isUnloading = FALSE
  /\ lastVisibilityChange = 0
  /\ nextWatchId = 1
  /\ callbackCount = << >>
  /\ watching = {}
  /\ visibilityState \in {"visible", "hidden"}
  /\ tracks = [i \in TrackIds |->
                 [kind |-> "none", live |-> FALSE, wrapped |-> FALSE]]
  /\ lastOp = NoOp
  /\ fed = << >>
  /\ out = << >>
  /\ lastEmit = << >>
  /\ oneShotSeen = FALSE
  /\ unpurged = << >>
  /\ refOut = << >>

\* the service worker when its script has run, over one of these stores
InitWorker(stores) ==
  /\ channel = {}
  /\ handlers = << >>
  /\ storage \in stores
  /\ newLogsCount = 0
  /\ badgeText = ""
  /\ notificationTracker = << >>
  /\ lastAlert = << >>
  /\ bgOp = BgOp("init", 0, NoReply, << >>)
  /\ sentCount = 0
  /\ received = {}
  /\ submitted = {}
  /\ clearedIds = {}
  /\ ackedSettings = NoReply

\* the extension is installed and a page is loaded
Init == InitPage /\ InitWorker({InstalledStorage})

\* the same, or the store has not been filled by onInstalled
InitAnyStore == InitPage /\ InitWorker({InstalledStorage, EmptyStorage})

\* the clock advances between two handlers
Tick(points) ==
  /\ \E t \in points :
       /\ t > now
       /\ now' = t
  /\ lastOp' = Op("tick", Outcome(TRUE, Undefined), Outcome(TRUE, Undefined),
                  FALSE, FALSE, 0)
  /\ fed' = << >>
  /\ out' = << >>
  /\ bgOp' = BgOp("tick", 0, NoReply, << >>)
  /\ refOut' = << >>
  /\ UNCHANGED <<loggedEvents, lastEmit, locVars, visibilityState, tracks,
                 unpurged, workerVars>>

Quiet(name, under, seen, video, audio, id) ==
  /\ lastOp' = Op(name, under, seen, video, audio, id)
  /\ fed' = << >>
  /\ out' = << >>
  /\ refOut' = << >>
  /\ UNCHANGED <<loggedEvents, lastEmit, unpurged, workerVars, bgOp>>

----------------------------------------------------------------------------
(* GEOLOCATION DETECTION *)

\* a window of 2 units of a clock that counts milliseconds
InVisibilityWindowSeconds(lvc, t) == t - lvc < 2 /\ lvc > 0

\* timeSinceVisibilityChange < 2000 && lastVisibilityChange > 0
InVisibilityWindow(lvc, t) == t - lvc < VISIBILITY_WINDOW /\ lvc > 0

\* an interval that has to be exceeded
OneShotLogsStrict(lastLog, t) == t - lastLog = t \/ t - lastLog > MIN_LOG_INTERVAL

\* timeSinceLastLog === now || timeSinceLastLog >= MIN_LOG_INTERVAL
OneShotLogs(lastLog, t) == t - lastLog = t \/ t - lastLog >= MIN_LOG_INTERVAL

\* a watch that logs its first callback only
WatchLogsFirstOnly(count, lastLog, t) == count = 1

\* a watch whose every callback passes for a first one
WatchLogsFromFirst(count, lastLog, t) ==
  count >= 1 \/ t - lastLog >= MIN_LOG_INTERVAL

\* callbackCount === 1 || timeSinceLastLog >= MIN_LOG_INTERVAL
WatchLogs(count, lastLog, t) == count = 1 \/ t - lastLog >= MIN_LOG_INTERVAL

\* a success callback without the isUnloading check
OneShotDecisionNoUnloadCheck(unloading, lvc, lastLog, t) ==
  IF InVisibilityWindow(lvc, t) THEN "visibility"
  ELSE IF OneShotLogs(lastLog, t) THEN "log"
  ELSE "silent"

\* what the success callback of the getCurrentPosition wrapper does with a
\* position: "unloading" and "visibility" are its two early returns
OneShotDecision(unloading, lvc, lastLog, t) ==
  IF unloading THEN "unloading"
  ELSE IF InVisibilityWindow(lvc, t) THEN "visibility"
  ELSE IF OneShotLogs(lastLog, t) THEN "log"
  ELSE "silent"

\* the same for the success callback of the watchPosition wrapper, count
\* being callbackCount after its increment
WatchDecision(unloading, count, lvc, lastLog, t) ==
  IF unloading THEN "unloading"
  ELSE IF InVisibilityWindow(lvc, t) THEN "visibility"
  ELSE IF WatchLogs(count, lastLog, t) THEN "log"
  ELSE "silent"

\* a wrapper whose return on unloading leaves out the page's callback
SuccessCallsNotUnloading(decision) ==
  IF decision = "unloading" THEN 0
  ELSE IF decision = "visibility" THEN 1
  ELSE 1

\* how often a success callback of the wrappers invokes the page's
\* successCallback: once before each of the two early returns, once at
\* its end
SuccessCalls(decision) ==
  IF decision = "unloading" THEN 1
  ELSE IF decision = "visibility" THEN 1
  ELSE 1

\* the success callback the getCurrentPosition wrapper hands to the browser
GetCurrentPositionSuccess ==
  /\ oneShotSeen' = TRUE
  /\ lastOp' = LET decision == OneShotDecision(isUnloading,
                                  lastVisibilityChange, lastLogTime, now)
                   op == Called(Op("getCurrentPosition",
                                   Outcome(TRUE, Position),
                                   Outcome(TRUE, Position), FALSE, FALSE, 0),
                                SuccessCalls(decision))
               IN IF oneShotSeen THEN op ELSE FirstOneShot(op)
  /\ UNCHANGED <<now, activeWatchers, isUnloading, lastVisibilityChange,
                 nextWatchId, callbackCount, watching, visibilityState, tracks>>
  /\ IF OneShotDecision(isUnloading, lastVisibilityChange, lastLogTime, now)
          = "log"
       THEN /\ Commit(notifyPermissionUsage(Start, "location", "accessed", now))
            /\ lastLogTime' = now
       ELSE /\ fed' = << >>
            /\ out' = << >>
            /\ refOut' = << >>
            /\ UNCHANGED <<loggedEvents, lastEmit, lastLogTime, unpurged,
                           workerVars, bgOp>>

\* errorCallback is handed to the browser as it is
GetCurrentPositionError ==
  /\ \E e \in PositionErrors :
       Quiet("getCurrentPosition", Outcome(FALSE, e), Outcome(FALSE, e),
             FALSE, FALSE, 0)
  /\ UNCHANGED <<now, locVars, visibilityState, tracks>>

\* the watchPosition wrapper: a new watch with its own callbackCount
WatchPosition ==
  /\ nextWatchId <= MaxWatches
  /\ LET watchId == nextWatchId
     IN /\ nextWatchId' = watchId + 1
        /\ callbackCount' = MapSet(callbackCount, watchId, 0)
        /\ watching' = watching \cup {watchId}
        /\ activeWatchers' = activeWatchers \cup {watchId}
        /\ Quiet("watchPosition", Outcome(TRUE, Val("id", watchId)),
                 Outcome(TRUE, Val("id", watchId)), FALSE, FALSE, watchId)
  /\ UNCHANGED <<now, lastLogTime, isUnloading, lastVisibilityChange,
                 visibilityState, tracks, oneShotSeen>>

\* a success callback that counts below the test of the visibility window
WatchPositionSuccessCountsLate(watchId) ==
  /\ watchId \in watching
  /\ callbackCount[watchId] < MaxCallbacks
  /\ UNCHANGED <<now, activeWatchers, isUnloading, lastVisibilityChange,
                 nextWatchId, watching, visibilityState, tracks, oneShotSeen>>
  /\ callbackCount' =
       IF isUnloading \/ InVisibilityWindow(lastVisibilityChange, now)
         THEN callbackCount
         ELSE [callbackCount EXCEPT ![watchId] = @ + 1]
  /\ LET decision == WatchDecision(isUnloading, callbackCount'[watchId],
                                   lastVisibilityChange, lastLogTime, now)
     IN /\ lastOp' = Called(Op("watchCallback", Outcome(TRUE, Position),
                               Outcome(TRUE, Position), FALSE, FALSE,
                               watchId),
                            SuccessCalls(decision))
        /\ IF decision = "log"
             THEN /\ Commit(notifyPermissionUsage(Start, "location",
                                                  "accessed", now))
                  /\ lastLogTime' = now
             ELSE /\ fed' = << >>
                  /\ out' = << >>
                  /\ refOut' = << >>
                  /\ UNCHANGED <<loggedEvents, lastEmit, lastLogTime,
                                 unpurged, workerVars, bgOp>>

\* the success callback the watchPosition wrapper hands to the browser
WatchPositionSuccess(watchId) ==
  /\ watchId \in watching
  /\ callbackCount[watchId] < MaxCallbacks
  /\ UNCHANGED <<now, activeWatchers, isUnloading, lastVisibilityChange,
                 nextWatchId, watching, visibilityState, tracks, oneShotSeen>>
  /\ callbackCount' = IF isUnloading THEN callbackCount
                      ELSE [callbackCount EXCEPT ![watchId] = @ + 1]
  /\ LET decision == WatchDecision(isUnloading, callbackCount'[watchId],
                                   lastVisibilityChange, lastLogTime, now)
     IN /\ lastOp' = Called(Op("watchCallback", Outcome(TRUE, Position),
                               Outcome(TRUE, Position), FALSE, FALSE,
                               watchId),
                            SuccessCalls(decision))
        /\ IF decision = "log"
             THEN /\ Commit(notifyPermissionUsage(Start, "location",
                                                  "accessed", now))
                  /\ lastLogTime' = now
             ELSE /\ fed' = << >>
                  /\ out' = << >>
                  /\ refOut' = << >>
                  /\ UNCHANGED <<loggedEvents, lastEmit, lastLogTime,
                                 unpurged, workerVars, bgOp>>

WatchPositionError(watchId) ==
  /\ watchId \in watching
  /\ \E e \in PositionErrors :
       Quiet("watchCallback", Outcome(FALSE, e), Outcome(FALSE, e),
             FALSE, FALSE, watchId)
  /\ UNCHANGED <<now, locVars, visibilityState, tracks>>

\* a clearWatch wrapper that reports the end of a watch as a usage
ClearWatchLogged(watchId) ==
  /\ activeWatchers' = activeWatchers \ {watchId}
  /\ watching' = watching \ {watchId}
  /\ callbackCount' = [w \in watching' |-> callbackCount[w]]
  /\ Commit(notifyPermissionUsage(Start, "location", "accessed", now))
  /\ lastOp' = Op("clearWatch", Outcome(TRUE, Undefined),
                  Outcome(TRUE, Undefined), FALSE, FALSE, watchId)
  /\ UNCHANGED <<now, lastLogTime, isUnloading, lastVisibilityChange,
                 nextWatchId, visibilityState, tracks, oneShotSeen>>

\* the clearWatch wrapper, for the id of a watch or an id (0) of none.  The
\* browser drops the callback of a cleared watch, and with it the closure
\* that holds its callbackCount.
ClearWatch(watchId) ==
  /\ activeWatchers' = activeWatchers \ {watchId}
  /\ watching' = watching \ {watchId}
  /\ callbackCount' = [w \in watching' |-> callbackCount[w]]
  /\ Quiet("clearWatch", Outcome(TRUE, Undefined), Outcome(TRUE, Undefined),
           FALSE, FALSE, watchId)
  /\ UNCHANGED <<now, lastLogTime, isUnloading, lastVisibilityChange,
                 nextWatchId, visibilityState, tracks, oneShotSeen>>

BeforeUnload ==
  /\ isUnloading' = TRUE
  /\ Quiet("beforeunload", Outcome(TRUE, Undefined), Outcome(TRUE, Undefined),
           FALSE, FALSE, 0)
  /\ UNCHANGED <<now, lastLogTime, activeWatchers, lastVisibilityChange,
                 nextWatchId, callbackCount, watching, visibilityState, tracks,
                 oneShotSeen>>

PageHide ==
  /\ isUnloading' = TRUE
  /\ Quiet("pagehide", Outcome(TRUE, Undefined), Outcome(TRUE, Undefined),
           FALSE, FALSE, 0)
  /\ UNCHANGED <<now, lastLogTime, activeWatchers, lastVisibilityChange,
                 nextWatchId, callbackCount, watching, visibilityState, tracks,
                 oneShotSeen>>

\* the visibilitychange listener; the document went to the other state
VisibilityChange ==
  /\ visibilityState' = IF visibilityState = "visible" THEN "hidden"
                                                       ELSE "visible"
  /\ lastVisibilityChange' = IF visibilityState' = "visible"
                               THEN now ELSE lastVisibilityChange
  /\ Quiet("visibilitychange", Outcome(TRUE, Undefined),
           Outcome(TRUE, Undefined), FALSE, FALSE, 0)
  /\ UNCHANGED <<now, lastLogTime, activeWatchers, isUnloading,
                 nextWatchId, callbackCount, watching, tracks, oneShotSeen>>

----------------------------------------------------------------------------
(* CAMERA & MICROPHONE DETECTION *)

\* the constraints of a request that can be granted
Constraints == {c \in [video : BOOLEAN, audio : BOOLEAN] : c.video \/ c.audio}

\* the audio test as the else branch of the video test
NotifyActiveEither(d, c, t) ==
  IF c.video THEN notifyPermissionUsage(d, "camera", "active", t)
  ELSE IF c.audio THEN notifyPermissionUsage(d, "microphone", "active", t)
  ELSE d

\* if (constraints && constraints.video) ...; if (... constraints.audio) ...
NotifyActive(d, c, t) ==
  LET d1 == IF c.video THEN notifyPermissionUsage(d, "camera", "active", t)
                       ELSE d
  IN IF c.audio THEN notifyPermissionUsage(d1, "microphone", "active", t)
                ELSE d1

\* track slots that hold no track the page can still use
FreeSlots == {i \in TrackIds : ~tracks[i].live}
Lowest(S) == CHOOSE i \in S : \A j \in S : i <= j

\* the tracks of a granted stream: a video track and an audio track as
\* requested, wrapped or as the browser made them
StreamTracks(c, wrapped) ==
  LET v == Lowest(FreeSlots)
      t1 == IF c.video
              THEN [tracks EXCEPT ![v] = [kind |-> "video", live |-> TRUE,
                                          wrapped |-> wrapped]]
              ELSE tracks
      free1 == {i \in TrackIds : ~t1[i].live}
      a == Lowest(free1)
  IN IF c.audio
       THEN [t1 EXCEPT ![a] = [kind |-> "audio", live |-> TRUE,
                               wrapped |-> wrapped]]
       ELSE t1

\* stream.getTracks().forEach(...): the tracks of the stream get their
\* stop wrapped and an 'ended' listener
WrapTracks(c) == StreamTracks(c, TRUE)

NumTracks(c) == (IF c.video THEN 1 ELSE 0) + (IF c.audio THEN 1 ELSE 0)

\* navigator.mediaDevices.getUserMedia, the request is granted
GetUserMedia(c) ==
  /\ c \in Constraints
  /\ Cardinality(FreeSlots) >= NumTracks(c)
  /\ Commit(NotifyActive(Start, c, now))
  /\ tracks' = WrapTracks(c)
  /\ lastOp' = Op("getUserMedia", Outcome(TRUE, Stream), Outcome(TRUE, Stream),
                  c.video, c.audio, 0)
  /\ UNCHANGED <<now, locVars, visibilityState>>

\* navigator.mediaDevices.getUserMedia, the request is rejected; the wrapper
\* does not look at the constraints then
GetUserMediaRejected(e) ==
  /\ e \in Errors
  /\ Quiet("getUserMedia", Outcome(FALSE, e), Outcome(FALSE, e),
           FALSE, FALSE, 0)
  /\ UNCHANGED <<now, locVars, visibilityState, tracks>>

\* navigator.getUserMedia (legacy), the success callback: the stream goes
\* to the page's callback with its tracks as they are
LegacyGetUserMedia(c) ==
  /\ c \in Constraints
  /\ Cardinality(FreeSlots) >= NumTracks(c)
  /\ Commit(NotifyActive(Start, c, now))
  /\ tracks' = StreamTracks(c, FALSE)
  /\ lastOp' = Op("legacyGetUserMedia", Outcome(TRUE, Stream),
                  Outcome(TRUE, Stream), c.video, c.audio, 0)
  /\ UNCHANGED <<now, locVars, visibilityState>>

\* navigator.getUserMedia (legacy), errorCallback is handed on as it is
LegacyGetUserMediaError(e) ==
  /\ e \in Errors
  /\ Quiet("legacyGetUserMedia", Outcome(FALSE, e), Outcome(FALSE, e),
           FALSE, FALSE, 0)
  /\ UNCHANGED <<now, locVars, visibilityState, tracks>>

\* track.kind === 'video' ? 'camera' : 'microphone'
PermType(kind) == IF kind = "video" THEN "camera" ELSE "microphone"

\* what a stop() or an 'ended' event of a track feeds to the debouncer:
\* the tracks of a legacy stream have no wrapper and no listener
NotifyStopped(d, track, t) ==
  IF track.wrapped
    THEN notifyPermissionUsage(d, PermType(track.kind), "stopped", t)
    ELSE d

\* track.stop(): the wrapper, then the original stop
TrackStop(i) ==
  /\ tracks[i].kind # "none"
  /\ Commit(NotifyStopped(Start, tracks[i], now))
  /\ tracks' = [tracks EXCEPT ![i].live = FALSE]
  /\ lastOp' = Op("trackStop", Outcome(TRUE, Undefined),
                  Outcome(TRUE, Undefined), tracks[i].kind = "video",
                  tracks[i].kind = "audio", i)
  /\ UNCHANGED <<now, locVars, visibilityState>>

\* the source of a live track ended: its 'ended' listener
TrackEnded(i) ==
  /\ tracks[i].live
  /\ Commit(NotifyStopped(Start, tracks[i], now))
  /\ tracks' = [tracks EXCEPT ![i].live = FALSE]
  /\ lastOp' = Op("trackEnded", Outcome(TRUE, Undefined),
                  Outcome(TRUE, Undefined), tracks[i].kind = "video",
                  tracks[i].kind = "audio", i)
  /\ UNCHANGED <<now, locVars, visibilityState>>

----------------------------------------------------------------------------
(* CLIPBOARD DETECTION *)

\* what the underlying readText / read can resolve with
TextValues == {Undefined, Null, Val("string", 0), Val("string", 4)}
ItemValues == {Undefined, Null, Val("array", 0), Val("array", 1)}

\* text !== undefined && text !== null
TextWasRead(text) == text.type # "undefined" /\ text.type # "null"

\* clipboardItems && clipboardItems.length > 0
ItemsWereRead(clipboardItems) ==
  /\ clipboardItems.type # "undefined" /\ clipboardItems.type # "null"
  /\ clipboardItems.len > 0

ClipboardReadText(text) ==
  /\ text \in TextValues
  /\ IF TextWasRead(text)
       THEN /\ Commit(notifyPermissionUsage(Start, "clipboard-read",
                                            "accessed", now))
            /\ lastOp' = Op("readText", Outcome(TRUE, text),
                            Outcome(TRUE, text), FALSE, FALSE, 0)
       ELSE Quiet("readText", Outcome(TRUE, text), Outcome(TRUE, text),
                  FALSE, FALSE, 0)
  /\ UNCHANGED <<now, locVars, visibilityState, tracks>>

ClipboardRead(clipboardItems) ==
  /\ clipboardItems \in ItemValues
  /\ IF ItemsWereRead(clipboardItems)
       THEN /\ Commit(notifyPermissionUsage(Start, "clipboard-read",
                                            "accessed", now))
            /\ lastOp' = Op("read", Outcome(TRUE, clipboardItems),
                            Outcome(TRUE, clipboardItems), FALSE, FALSE, 0)
       ELSE Quiet("read", Outcome(TRUE, clipboardItems),
                  Outcome(TRUE, clipboardItems), FALSE, FALSE, 0)
  /\ UNCHANGED <<now, locVars, visibilityState, tracks>>

\* writeText and write have the same wrapper
ClipboardWrite(method) ==
  /\ method \in {"writeText", "write"}
  /\ Commit(notifyPermissionUsage(Start, "clipboard-write", "accessed", now))
  /\ lastOp' = Op(method, Outcome(TRUE, Undefined), Outcome(TRUE, Undefined),
                  FALSE, FALSE, 0)
  /\ UNCHANGED <<now, locVars, visibilityState, tracks>>

\* .catch(err => { throw err; }) of the four clipboard wrappers
ClipboardRejected(method, e) ==
  /\ method \in {"readText", "read", "writeText", "write"}
  /\ e \in Errors
  /\ Quiet(method, Outcome(FALSE, e), Outcome(FALSE, e), FALSE, FALSE, 0)
  /\ UNCHANGED <<now, locVars, visibilityState, tracks>>

----------------------------------------------------------------------------
(* NOTIFICATION DETECTION *)

\* what new OriginalNotification(title, options) does
NotificationOutcomes ==
  {Outcome(TRUE, NotificationObj)} \cup {Outcome(FALSE, e) : e \in Errors}

\* the wrapped constructor: notify, then delegate
Notification(under) ==
  /\ under \in NotificationOutcomes
  /\ Commit(notifyPermissionUsage(Start, "notifications", "shown", now))
  /\ lastOp' = Op("Notification", under, under, FALSE, FALSE, 0)
  /\ UNCHANGED <<now, locVars, visibilityState, tracks>>

----------------------------------------------------------------------------
(* CONTENT SCRIPT: MESSAGE FORWARDING *)

\* the logData the listener builds from event.detail and the page.  id is
\* the model's name for the message: the n-th event forwarded.  The worker
\* gives every entry an id of its own, `${Date.now()}-${random}`, which is
\* modelled by it.
LogData(id, detail, t, visibility) ==
  [id |-> id,
   permissionType |-> detail.permissionType,
   action |-> detail.action,
   domain |-> Hostname,
   timestamp |-> t,
   isVisible |-> (visibility = "visible")]

\* the PERMISSION_DETECTED listener: one chrome.runtime.sendMessage
PermissionDetected(detail, limit) ==
  /\ sentCount < limit
  /\ LET logData == LogData(sentCount + 1, detail, now, visibilityState)
     IN /\ channel' = channel \cup {logData}
        /\ bgOp' = Heard(BgOp("PERMISSION_DETECTED", logData.id, NoReply,
                              << >>), detail)
  /\ sentCount' = sentCount + 1
  /\ UNCHANGED <<now, visibilityState, pageVars, handlers, storage,
                 newLogsCount, badgeText, notificationTracker, lastAlert, received, submitted,
                 clearedIds, ackedSettings>>

\* the same listener in the content script of the page of the other site,
\* whose document is visible
OtherPageDetected(detail, limit) ==
  /\ sentCount < limit
  /\ LET logData == [LogData(sentCount + 1, detail, now, "visible")
                       EXCEPT !.domain = OtherHostname]
     IN /\ channel' = channel \cup {logData}
        /\ bgOp' = Heard(BgOp("PERMISSION_DETECTED", logData.id, NoReply,
                              << >>), detail)
  /\ sentCount' = sentCount + 1
  /\ UNCHANGED <<now, visibilityState, pageVars, handlers, storage,
                 newLogsCount, badgeText, notificationTracker, lastAlert,
                 received, submitted, clearedIds, ackedSettings>>

\* window.dispatchEvent runs the listener for each event before it returns:
\* the events a handler of the page dispatched are forwarded in their order
Forwarded(events) ==
  /\ channel' = channel \cup
                  {LogData(sentCount + i, events[i], now, visibilityState) :
                     i \in 1..Len(events)}
  /\ sentCount' = sentCount + Len(events)
  /\ bgOp' = IF events = << >> THEN bgOp
             ELSE Heard(BgOp("PERMISSION_DETECTED", sentCount', NoReply,
                             << >>), events[Len(events)])
  /\ UNCHANGED <<handlers, storage, newLogsCount, badgeText,
                 notificationTracker, lastAlert, received, submitted, clearedIds,
                 ackedSettings>>

\* navigator.mediaDevices.getUserMedia, the request is granted, with the
\* content script listening
GetUserMediaForwarded(c, limit) ==
  /\ c \in Constraints
  /\ Cardinality(FreeSlots) >= NumTracks(c)
  /\ sentCount + NumTracks(c) <= limit
  /\ LET d == NotifyActive(Start, c, now)
     IN CommitPage(d) /\ Forwarded(d.out)
  /\ tracks' = WrapTracks(c)
  /\ lastOp' = Op("getUserMedia", Outcome(TRUE, Stream), Outcome(TRUE, Stream),
                  c.video, c.audio, 0)
  /\ UNCHANGED <<now, locVars, visibilityState>>

\* a content script that sends again what could not be delivered
SendFailedRetry(logData) ==
  /\ logData \in channel
  /\ channel' = channel
  /\ bgOp' = BgOp("sendFailed", logData.id, SendFailedDebug, << >>)
  /\ UNCHANGED <<now, visibilityState, pageVars, handlers, storage,
                 newLogsCount, badgeText, notificationTracker, lastAlert, sentCount,
                 received, submitted, clearedIds, ackedSettings>>

\* the promise of sendMessage is rejected (no receiving end): .catch
SendFailed(logData) ==
  /\ logData \in channel
  /\ channel' = channel \ {logData}
  /\ bgOp' = BgOp("sendFailed", logData.id, SendFailedDebug, << >>)
  /\ UNCHANGED <<now, visibilityState, pageVars, handlers, storage,
                 newLogsCount, badgeText, notificationTracker, lastAlert, sentCount,
                 received, submitted, clearedIds, ackedSettings>>

----------------------------------------------------------------------------
(* BACKGROUND SERVICE WORKER *)

\* result.logs || []
StoredLogs(st) == IF "logs" \in DOMAIN st THEN st.logs ELSE << >>

\* result.settings || { notificationsEnabled: true }
StoredSettings(st) ==
  IF "settings" \in DOMAIN st THEN st.settings ELSE DefaultSettings

\* a test that takes a missing field for a switched-off one
NotificationsEnabledStrict(settings) ==
  "notificationsEnabled" \in DOMAIN settings
    /\ settings.notificationsEnabled = TRUE

\* settings.notificationsEnabled !== false
NotificationsEnabled(settings) ==
  ~("notificationsEnabled" \in DOMAIN settings
    /\ settings.notificationsEnabled = FALSE)

\* the logEntry handlePermissionUsage builds from message.data
LogEntry(data) ==
  [id |-> data.id,
   timestamp |-> data.timestamp,
   domain |-> data.domain,
   permissionType |-> data.permissionType,
   action |-> data.action,
   isVisible |-> data.isVisible]

\* a badge that shows '99+' from 99 new logs on
BadgeTextFrom99(count) ==
  IF count > 0 THEN (IF count >= 99 THEN "99+" ELSE ToString(count)) ELSE ""

\* newLogsCount > 99 ? '99+' : newLogsCount.toString(), '' for no new log
BadgeText(count) ==
  IF count > 0 THEN (IF count > 99 THEN "99+" ELSE ToString(count)) ELSE ""

\* a saveLog that adds the entry at the end of the log
Push(logs, logEntry) ==
  LET longer == logs \o <<logEntry>>
  IN IF Len(longer) > MAX_LOGS THEN SubSeq(longer, 1, MAX_LOGS) ELSE longer

\* a saveLog that does not cut the log
UnshiftNoLimit(logs, logEntry) == <<logEntry>> \o logs

\* logs.unshift(logEntry); if (logs.length > 1000) logs.length = 1000
Unshift(logs, logEntry) ==
  LET longer == <<logEntry>> \o logs
  IN IF Len(longer) > MAX_LOGS THEN SubSeq(longer, 1, MAX_LOGS) ELSE longer

\* the kind and the origin host of an entry
AlertPair(logEntry) == <<logEntry.permissionType, logEntry.domain>>

\* `${logEntry.permissionType}-${logEntry.domain}`
NotificationKey(logEntry) == logEntry.permissionType \o "-" \o logEntry.domain

\* the early return of showNotification
IsCoolingDown(m, key, t) == key \in DOMAIN m /\ t - m[key] < NOTIFICATION_COOLDOWN

\* a loop deleting the tracker entries older than 1 s
PurgeTrackerEarly(m, t) ==
  [k \in {j \in DOMAIN m : ~(t - m[j] > 1000)} |-> m[k]]

\* the loop deleting the tracker entries older than 10 s
PurgeTracker(m, t) ==
  [k \in {j \in DOMAIN m : ~(t - m[j] > TRACKER_PURGE_AGE)} |-> m[k]]

\* showNotification: the tracker it leaves and the alerts it creates
showNotification(tracker, logEntry, t) ==
  LET notificationKey == NotificationKey(logEntry)
  IN IF IsCoolingDown(tracker, notificationKey, t)
       THEN [tracker |-> tracker, alerts |-> << >>]
       ELSE [tracker |-> PurgeTracker(MapSet(tracker, notificationKey, t), t),
             alerts |-> <<logEntry.id>>]

\* the handlePermissionUsage calls that have not finished their saveLog
Saving == {id \in DOMAIN handlers : handlers[id].pc \in {"get", "set"}}

\* onMessage, PERMISSION_USAGE: handlePermissionUsage is started and runs to
\* the chrome.storage.local.get of saveLog; nothing waits for it
OnPermissionUsage(logData) ==
  /\ logData \in channel
  /\ Cardinality(DOMAIN handlers) < MaxInFlight
  /\ channel' = channel \ {logData}
  /\ handlers' = MapSet(handlers, logData.id,
                        [pc |-> "get", logEntry |-> LogEntry(logData),
                         logs |-> << >>, settingsAtSave |-> NoReply])
  /\ received' = received \cup {logData.id}
  /\ submitted' = submitted \cup {LogEntry(logData)}
  /\ bgOp' = BgOp("PERMISSION_USAGE", logData.id, NoReply, << >>)
  /\ UNCHANGED <<now, visibilityState, pageVars, storage, newLogsCount,
                 badgeText, notificationTracker, lastAlert, sentCount, clearedIds,
                 ackedSettings>>

\* what handlePermissionUsage does when saveLog has returned, up to the
\* chrome.storage.local.get of getSettings
AfterSaveLog(id, st) ==
  /\ handlers' = [handlers EXCEPT ![id].pc = "settings",
                                  ![id].settingsAtSave = StoredSettings(st)]
  /\ newLogsCount' = newLogsCount + 1
  /\ badgeText' = BadgeText(newLogsCount')

\* saveLog: chrome.storage.local.get(['logs']) is answered; on an answer the
\* entry is put in front of the logs read and the write is started, on a
\* failure saveLog catches it and returns
SaveLogGet(id, ok) ==
  /\ id \in DOMAIN handlers
  /\ handlers[id].pc = "get"
  /\ IF ok
       THEN /\ handlers' = [handlers EXCEPT
                 ![id].pc = "set",
                 ![id].logs = Unshift(StoredLogs(storage),
                                      handlers[id].logEntry)]
            /\ UNCHANGED <<newLogsCount, badgeText>>
       ELSE AfterSaveLog(id, storage)
  /\ bgOp' = Answered(BgOp("saveLog.get", id, NoReply, << >>), ok)
  /\ UNCHANGED <<now, visibilityState, pageVars, channel, storage,
                 notificationTracker, lastAlert, sentCount, received, submitted, clearedIds,
                 ackedSettings>>

\* saveLog: chrome.storage.local.set({ logs }) is answered
SaveLogSet(id, ok) ==
  /\ id \in DOMAIN handlers
  /\ handlers[id].pc = "set"
  /\ storage' = IF ok THEN MapSet(storage, "logs", handlers[id].logs)
                      ELSE storage
  /\ AfterSaveLog(id, storage')
  /\ bgOp' = Answered(BgOp("saveLog.set", id, NoReply, << >>), ok)
  /\ UNCHANGED <<now, visibilityState, pageVars, channel,
                 notificationTracker, lastAlert, sentCount, received, submitted, clearedIds,
                 ackedSettings>>

\* handlePermissionUsage: the get of getSettings is answered and the alert
\* is raised or not; the call is over
UsageHandled(id, ok) ==
  /\ id \in DOMAIN handlers
  /\ handlers[id].pc = "settings"
  /\ LET settings == IF ok THEN StoredSettings(storage) ELSE DefaultSettings
         shown == IF NotificationsEnabled(settings)
                    THEN showNotification(notificationTracker,
                                          handlers[id].logEntry, now)
                    ELSE [tracker |-> notificationTracker, alerts |-> << >>]
     IN /\ notificationTracker' = shown.tracker
        /\ lastAlert' = IF shown.alerts = << >> THEN lastAlert
                         ELSE MapSet(lastAlert,
                                     AlertPair(handlers[id].logEntry), now)
        /\ bgOp' = Answered(BgOp("handled", id, NoReply, shown.alerts), ok)
  /\ handlers' = [h \in DOMAIN handlers \ {id} |-> handlers[h]]
  /\ UNCHANGED <<now, visibilityState, pageVars, channel, storage,
                 newLogsCount, badgeText, sentCount, received, submitted, clearedIds,
                 ackedSettings>>

\* onMessage, GET_LOGS: getLogs and its response
GetLogs(ok) ==
  /\ bgOp' = Answered(BgOp("GET_LOGS", 0,
                           LogsReply(IF ok THEN StoredLogs(storage)
                                           ELSE << >>), << >>), ok)
  /\ UNCHANGED <<now, visibilityState, pageVars, workerVars>>

\* onMessage, CLEAR_LOGS: clearLogs and its acknowledgement
ClearLogs(ok) ==
  /\ IF ok
       THEN /\ storage' = MapSet(storage, "logs", << >>)
            /\ newLogsCount' = 0
            /\ badgeText' = BadgeText(newLogsCount')
       ELSE UNCHANGED <<storage, newLogsCount, badgeText>>
  /\ clearedIds' = clearedIds \cup
                     {StoredLogs(storage)[i].id :
                        i \in 1..Len(StoredLogs(storage))}
  /\ bgOp' = Answered(BgOp("CLEAR_LOGS", 0, Success, << >>), ok)
  /\ UNCHANGED <<now, visibilityState, pageVars, channel, handlers,
                 notificationTracker, lastAlert, sentCount, received, submitted, ackedSettings>>

\* a getSettings without its catch: a failed read leaves the request
\* without a response
GetSettingsNoCatch(ok) ==
  /\ bgOp' = Answered(BgOp("GET_SETTINGS", 0,
                           IF ok THEN StoredSettings(storage)
                                 ELSE NoReply, << >>), ok)
  /\ UNCHANGED <<now, visibilityState, pageVars, workerVars>>

\* onMessage, GET_SETTINGS: getSettings and its response
GetSettings(ok) ==
  /\ bgOp' = Answered(BgOp("GET_SETTINGS", 0,
                           IF ok THEN StoredSettings(storage)
                                 ELSE DefaultSettings, << >>), ok)
  /\ UNCHANGED <<now, visibilityState, pageVars, workerVars>>

\* an updateSettings that keeps the stored fields the new record lacks
UpdateSettingsMerge(newSettings, ok) ==
  /\ storage' =
       IF ok
         THEN LET old == StoredSettings(storage)
              IN MapSet(storage, "settings",
                        [k \in DOMAIN old \cup DOMAIN newSettings |->
                           IF k \in DOMAIN newSettings THEN newSettings[k]
                                                       ELSE old[k]])
         ELSE storage
  /\ ackedSettings' = newSettings
  /\ bgOp' = Answered(BgOp("UPDATE_SETTINGS", 0, Success, << >>), ok)
  /\ UNCHANGED <<now, visibilityState, pageVars, channel, handlers,
                 newLogsCount, badgeText, notificationTracker, lastAlert, sentCount,
                 received, submitted, clearedIds>>

\* onMessage, UPDATE_SETTINGS: updateSettings and its acknowledgement
UpdateSettings(newSettings, ok) ==
  /\ storage' = IF ok THEN MapSet(storage, "settings", newSettings)
                      ELSE storage
  /\ ackedSettings' = newSettings
  /\ bgOp' = Answered(BgOp("UPDATE_SETTINGS", 0, Success, << >>), ok)
  /\ UNCHANGED <<now, visibilityState, pageVars, channel, handlers,
                 newLogsCount, badgeText, notificationTracker, lastAlert, sentCount,
                 received, submitted, clearedIds>>

\* onMessage, RESET_BADGE: resetBadge
ResetBadge ==
  /\ newLogsCount' = 0
  /\ badgeText' = ""
  /\ bgOp' = BgOp("RESET_BADGE", 0, Success, << >>)
  /\ UNCHANGED <<now, visibilityState, pageVars, channel, handlers, storage,
                 notificationTracker, lastAlert, sentCount, received, submitted, clearedIds,
                 ackedSettings>>

----------------------------------------------------------------------------
Location ==
  \/ GetCurrentPositionSuccess
  \/ GetCurrentPositionError
  \/ WatchPosition
  \/ \E w \in WatchIds : WatchPositionSuccess(w)
  \/ \E w \in WatchIds : WatchPositionError(w)
  \/ \E w \in 0..MaxWatches : ClearWatch(w)
  \/ BeforeUnload
  \/ PageHide
  \/ VisibilityChange

Media ==
  \/ \E c \in Constraints : GetUserMedia(c)
  \/ \E e \in Errors : GetUserMediaRejected(e)
  \/ \E c \in Constraints : LegacyGetUserMedia(c)
  \/ \E e \in Errors : LegacyGetUserMediaError(e)
  \/ \E i \in TrackIds : TrackStop(i)
  \/ \E i \in TrackIds : TrackEnded(i)

Clipboard ==
  \/ \E v \in TextValues : ClipboardReadText(v)
  \/ \E v \in ItemValues : ClipboardRead(v)
  \/ \E m \in {"writeText", "write"} : ClipboardWrite(m)
  \/ \E m \in {"readText", "read", "writeText", "write"}, e \in Errors :
       ClipboardRejected(m, e)

Notifications == \E u \in NotificationOutcomes : Notification(u)

\* the events of a granted getUserMedia({ video: true, audio: true })
MediaDetails == {[permissionType |-> "camera", action |-> "active"],
                 [permissionType |-> "microphone", action |-> "active"]}

\* the steps of the handlePermissionUsage calls; oks holds the outcomes a
\* storage operation can have (TRUE: answered, FALSE: failed)
Handling(oks) ==
  \/ \E logData \in channel : OnPermissionUsage(logData)
  \/ \E id \in DOMAIN handlers, ok \in oks : SaveLogGet(id, ok)
  \/ \E id \in DOMAIN handlers, ok \in oks : SaveLogSet(id, ok)
  \/ \E id \in DOMAIN handlers, ok \in oks : UsageHandled(id, ok)

\* the requests of the popup
Requests(oks) ==
  \/ \E ok \in oks : GetLogs(ok)
  \/ \E ok \in oks : ClearLogs(ok)
  \/ \E ok \in oks : GetSettings(ok)
  \/ \E newSettings \in SettingsValues, ok \in oks :
       UpdateSettings(newSettings, ok)
  \/ ResetBadge

\* Spec follows the page, the content script and the service worker
\* together.  The wrappers of the three families share nothing but
\* loggedEvents and the clock, and each family has its own keys; the worker
\* shares with the page only the clock and the visibility of the document.
\* So the properties of a part are checked under the specification of that
\* part, whose state space can be exhausted.
NextLocation == Tick(LocationTimePoints) \/ Location
NextMedia == Tick(ShortTimePoints) \/ Media
NextClipboard == Tick(TimePoints) \/ Clipboard \/ Notifications
Next ==
  \/ Tick(TimePoints)
  \/ Location \/ Media \/ Clipboard \/ Notifications
  \/ \E detail \in MediaDetails : PermissionDetected(detail, MaxEvents)
  \/ \E detail \in MediaDetails : OtherPageDetected(detail, MaxEvents)
  \/ \E c \in Constraints : GetUserMediaForwarded(c, MaxEvents)
  \/ \E logData \in channel : SendFailed(logData)
  \/ Handling(BOOLEAN)
  \/ Requests(BOOLEAN)

\* The stored log, with the storage operations all answered: the events of
\* a page are forwarded and handled while the popup fetches and clears.
NextStore ==
  \/ \E detail \in MediaDetails : PermissionDetected(detail, MaxEvents)
  \/ Handling({TRUE})
  \/ GetLogs(TRUE)
  \/ ClearLogs(TRUE)

\* The stored settings and the alerts, with the storage operations all
\* answered: events of one kind are handled while the popup reads and
\* updates the settings.
NextSettings ==
  \/ Tick(WorkerTimePoints)
  \/ PermissionDetected([permissionType |-> "camera", action |-> "active"],
                        MaxEvents)
  \/ Handling({TRUE})
  \/ GetSettings(TRUE)
  \/ \E newSettings \in SettingsValues : UpdateSettings(newSettings, TRUE)

\* The way of an event from the page to the service worker
NextTransport ==
  \/ Tick(ShortTimePoints)
  \/ VisibilityChange
  \/ \E detail \in MediaDetails : PermissionDetected(detail, MaxEvents)
  \/ \E logData \in channel : SendFailed(logData)
  \/ \E logData \in channel : OnPermissionUsage(logData)

\* the n-th event a page forwards when all its events are camera/active
\* events forwarded at StartTime
SequentialEntry(n) ==
  LogEntry(LogData(n, [permissionType |-> "camera", action |-> "active"],
                   StartTime, visibilityState))

\* the service worker when n >= 1 such events have been forwarded and
\* handled one after the other over the installed store: the state the
\* steps of NextSequential lead to
InitHandled(n) ==
  /\ channel = {}
  /\ handlers = << >>
  /\ storage = [logs |-> [i \in 1..n |-> SequentialEntry(n - i + 1)],
                settings |-> DefaultSettings]
  /\ newLogsCount = n
  /\ badgeText = BadgeText(n)
  /\ notificationTracker =
       MapSet(<< >>, NotificationKey(SequentialEntry(1)), StartTime)
  /\ lastAlert = MapSet(<< >>, AlertPair(SequentialEntry(1)), StartTime)
  /\ bgOp = Answered(BgOp("handled", n, NoReply, << >>), TRUE)
  /\ sentCount = n
  /\ received = 1..n
  /\ submitted = {SequentialEntry(i) : i \in 1..n}
  /\ clearedIds = {}
  /\ ackedSettings = NoReply

\* no event was forwarded yet, or all but the last three that fill the log
InitSequential ==
  InitPage /\ (InitWorker({InstalledStorage, EmptyStorage})
                 \/ InitHandled(MAX_LOGS - 2))

\* Usage events submitted one after the other, each handled before the next
\* is forwarded, up to one more than the log can hold
NextSequential ==
  \/ /\ channel = {}
     /\ handlers = << >>
     /\ PermissionDetected([permissionType |-> "camera", action |-> "active"],
                           MAX_LOGS + 1)
  \/ Handling({TRUE})
  \/ GetLogs(TRUE)

\* The alerts, with the settings as installed: events of two kinds of the
\* page and of one kind of the page of the other site are handled over the
\* time the cooldown and the purge of the tracker take
NextAlerts ==
  \/ Tick(AlertTimePoints)
  \/ /\ channel = {}
     /\ handlers = << >>
     /\ \/ \E detail \in MediaDetails :
             PermissionDetected(detail, MaxEvents + 1)
        \/ OtherPageDetected([permissionType |-> "camera",
                              action |-> "active"], MaxEvents + 1)
  \/ Handling({TRUE})

\* The service worker over a store whose operations can fail: the events
\* of a page are handled while the popup sends its requests
NextFaults ==
  \/ /\ channel = {}
     /\ handlers = << >>
     /\ PermissionDetected([permissionType |-> "camera", action |-> "active"],
                           MaxEvents)
  \/ Handling(BOOLEAN)
  \/ \E ok \in BOOLEAN : GetLogs(ok)
  \/ \E ok \in BOOLEAN : ClearLogs(ok)
  \/ \E ok \in BOOLEAN : GetSettings(ok)
  \/ \E ok \in BOOLEAN : UpdateSettings([notificationsEnabled |-> FALSE], ok)

\* From the page to the stored log: granted media requests whose events
\* are forwarded and handled, every message delivered and every storage
\* operation answered
NextEndToEnd ==
  \/ Tick(ShortTimePoints)
  \/ \E c \in Constraints : GetUserMediaForwarded(c, MaxEvents)
  \/ Handling({TRUE})
  \/ GetLogs(TRUE)

\* the service worker when all but one of the events that fill the log
\* have been forwarded and handled one after the other
InitNearlyFull == InitPage /\ InitHandled(MAX_LOGS - 1)

\* The stored log about to be full: the events of the page up to one more
\* than the log can hold are handled at the same time while the popup
\* fetches and clears
NextStoreFull ==
  \/ \E detail \in MediaDetails : PermissionDetected(detail, MAX_LOGS + 1)
  \/ Handling({TRUE})
  \/ GetLogs(TRUE)
  \/ ClearLogs(TRUE)

\* the events a page forwards while the badge goes from two digits to '99+'
BADGE_EVENTS == 101

\* the service worker when all but three of these events have been
\* forwarded and handled one after the other
InitBadge == InitPage /\ InitHandled(BADGE_EVENTS - 3)

\* The badge: the last of these events are handled one after the other, the
\* storage answering or failing, while the popup is opened and clears
NextBadge ==
  \/ /\ channel = {}
     /\ handlers = << >>
     /\ PermissionDetected([permissionType |-> "camera", action |-> "active"],
                           BADGE_EVENTS)
  \/ Handling(BOOLEAN)
  \/ \E ok \in BOOLEAN : ClearLogs(ok)
  \/ ResetBadge

\* The wrappers of the media devices beside those of the location: the
\* page asks for its position and for streams, stops their tracks, changes
\* its visibility and is unloaded, in any order.
NextMixed ==
  \/ Tick(ShortTimePoints)
  \/ GetCurrentPositionSuccess
  \/ BeforeUnload
  \/ PageHide
  \/ VisibilityChange
  \/ \E c \in Constraints : GetUserMedia(c)
  \/ \E i \in TrackIds : TrackStop(i)

SpecLocation == Init /\ [][NextLocation]_vars
SpecMedia == Init /\ [][NextMedia]_vars
SpecClipboard == Init /\ [][NextClipboard]_vars
SpecStore == InitAnyStore /\ [][NextStore]_vars
SpecSettings == InitAnyStore /\ [][NextSettings]_vars
SpecTransport == InitAnyStore /\ [][NextTransport]_vars
SpecSequential == InitSequential /\ [][NextSequential]_vars
SpecAlerts == Init /\ [][NextAlerts]_vars
SpecFaults == InitAnyStore /\ [][NextFaults]_vars
SpecEndToEnd == Init /\ [][NextEndToEnd]_vars
SpecStoreFull == InitNearlyFull /\ [][NextStoreFull]_vars
SpecMixed == Init /\ [][NextMixed]_vars
SpecBadge == InitBadge /\ [][NextBadge]_vars
Spec == Init /\ [][Next]_vars

----------------------------------------------------------------------------
(* Properties *)

Signal(permissionType, action) ==
  [permissionType |-> permissionType, action |-> action]
KeyOf(signal) == EventKey(signal.permissionType, signal.action)
LocationAccessed == Signal("location", "accessed")
LocationKey == KeyOf(LocationAccessed)
CameraActive == Signal("camera", "active")
MicrophoneActive == Signal("microphone", "active")
NotificationShown == Signal("notifications", "shown")
ClipboardReadAccessed == Signal("clipboard-read", "accessed")

\* no event of key K was dispatched in the DEBOUNCE_TIME before t
NotEmittedWithin(K, t) ==
  K \notin DOMAIN lastEmit \/ t - lastEmit[K] >= DEBOUNCE_TIME

\* the step is a success callback of a one-shot location query
OneShotStep == lastOp'.op = "getCurrentPosition" /\ lastOp'.under.ok
\* the step is a success callback of a continuous watch
WatchStep == lastOp'.op = "watchCallback" /\ lastOp'.under.ok

\* a visibility change to visible was recorded less than 2000 ms before t
VisibleWithin2000(t) ==
  lastVisibilityChange # 0 /\ t - lastVisibilityChange < 2000

\* C1: a signal of key K arriving at time T is dispatched if and only if K
\* has no recorded time or T - T0 >= 500, T0 being the time of the last
\* dispatched signal of K; a dispatch makes T the recorded time of K, a
\* rejection dispatches nothing and records nothing.
C1_Step ==
  Len(fed') = 1 =>
    LET K == KeyOf(fed'[1])
        fresh == K \notin DOMAIN loggedEvents \/ now' - lastEmit[K] >= 500
    IN /\ (out' = fed') <=> fresh
       /\ fresh => /\ K \in DOMAIN loggedEvents' /\ loggedEvents'[K] = now'
                   /\ lastEmit'[K] = now'
       /\ ~fresh => out' = << >> /\ lastEmit' = lastEmit
                                /\ loggedEvents' = loggedEvents
C1_GenericDebounce == [][C1_Step]_vars

\* two Notification constructions 100 ms apart: the second dispatches nothing
C1_Witness ==
  /\ lastOp.op = "Notification"
  /\ fed = <<NotificationShown>>
  /\ out = << >>
  /\ now - lastEmit[KeyOf(NotificationShown)] = 100

\* C2 as stated: the first success callback ever delivered to a one-shot
\* location query dispatches a location/accessed event, whatever preceded it.
C2_FirstOneShotAlways ==
  [][(OneShotStep /\ ~oneShotSeen) => out' = <<LocationAccessed>>]_vars

\* C2 as amended: the first success callback ever delivered to a one-shot
\* location query dispatches a location/accessed event provided the page is
\* not unloading, no visibility change to visible was recorded in the
\* preceding 2000 ms and no watch callback was logged (lastLogTime) in the
\* preceding 5000 ms.
C2_FirstOneShot ==
  [][(/\ OneShotStep /\ ~oneShotSeen
      /\ ~isUnloading
      /\ ~VisibleWithin2000(now')
      /\ (lastLogTime = 0 \/ now' - lastLogTime >= 5000))
     => out' = <<LocationAccessed>>]_vars

\* the first one-shot success is dispatched exactly 5000 ms after a watch
\* callback was logged and 2000 ms or more after a visibility change
C2_Witness ==
  /\ lastOp.op = "getCurrentPosition" /\ lastOp.under.ok
  /\ lastOp.firstOneShot
  /\ out = <<LocationAccessed>>
  /\ lastVisibilityChange > 0
  /\ \E w \in DOMAIN callbackCount : callbackCount[w] >= 1
  /\ now >= StartTime + 5000

\* C3: a one-shot success that is not the first location access, arriving
\* while not unloading and with no visibility change in the preceding
\* 2000 ms, dispatches an event if and only if 5000 ms or more have elapsed
\* since the last dispatched location event.
C3_FiveSecondRule ==
  [][(/\ OneShotStep
      /\ LocationKey \in DOMAIN lastEmit
      /\ ~isUnloading
      /\ ~VisibleWithin2000(now'))
     => ((out' = <<LocationAccessed>>)
           <=> (now' - lastEmit[LocationKey] >= 5000))]_vars

\* C4: the first success callback of a watch, arriving while not unloading
\* and not within 2000 ms of a visibility change, dispatches a
\* location/accessed event however recently another one was dispatched.
C4_WatchFirstCallback ==
  [][(/\ WatchStep
      /\ ~isUnloading
      /\ callbackCount[lastOp'.id] = 0
      /\ ~VisibleWithin2000(now'))
     => out' = <<LocationAccessed>>]_vars

\* C5: beforeunload and pagehide set the unloading flag; once set it stays
\* set, and no step taken while it is set dispatches a location event or
\* records one.
C5_Step ==
  /\ lastOp'.op \in {"beforeunload", "pagehide"} => isUnloading'
  /\ isUnloading => /\ isUnloading'
                    /\ out' = << >>
                    /\ lastEmit' = lastEmit
                    /\ lastLogTime' = lastLogTime
C5_Unloading == [][C5_Step]_vars

\* while unloading, a one-shot success 5000 ms or more after the last logged
\* one dispatches nothing
C5_Witness ==
  /\ isUnloading
  /\ lastOp.op = "getCurrentPosition" /\ lastOp.under.ok
  /\ lastLogTime > 0 /\ now - lastLogTime >= 5000
  /\ out = << >>

\* C6: a location success callback less than 2000 ms after a recorded
\* visibility change to visible dispatches nothing; a visibility change
\* dispatches nothing and changes lastVisibilityChange only, and that only
\* when the page became visible.
C6_Step ==
  /\ ((OneShotStep \/ WatchStep) /\ VisibleWithin2000(now'))
       => /\ out' = << >>
          /\ lastEmit' = lastEmit
          /\ lastLogTime' = lastLogTime
  /\ lastOp'.op = "visibilitychange"
       => /\ out' = << >>
          /\ UNCHANGED <<now, loggedEvents, lastEmit, lastLogTime,
                         activeWatchers, isUnloading, callbackCount>>
          /\ lastVisibilityChange' =
               IF visibilityState' = "visible" THEN now
                                               ELSE lastVisibilityChange
C6_VisibilityWindow == [][C6_Step]_vars

\* the first callback of a watch, the first location access of the page,
\* falls 100 ms after a visibility change and dispatches nothing
C6_Witness ==
  /\ lastOp.op = "watchCallback" /\ lastOp.under.ok
  /\ ~isUnloading
  /\ callbackCount[lastOp.id] = 1
  /\ lastLogTime = 0
  /\ lastVisibilityChange > 0 /\ now - lastVisibilityChange = 100
  /\ out = << >>

\* C7: clearWatch dispatches nothing and changes nothing but the set of
\* active watchers, from which it removes the id.
C7_Step ==
  lastOp'.op = "clearWatch"
    => /\ fed' = << >> /\ out' = << >>
       /\ UNCHANGED <<now, loggedEvents, lastEmit, lastLogTime,
                      lastVisibilityChange, isUnloading>>
       /\ activeWatchers' = activeWatchers \ {lastOp'.id}
C7_ClearWatchSilent == [][C7_Step]_vars

\* a watch is cleared in the instant its callback was dispatched
C7_Witness ==
  /\ lastOp.op = "clearWatch"
  /\ lastOp.id >= 1 /\ lastOp.id < nextWatchId
  /\ lastOp.id \notin activeWatchers
  /\ LocationKey \in DOMAIN lastEmit /\ lastEmit[LocationKey] = now
  /\ lastLogTime = now

\* C8: a call whose underlying operation rejects or throws dispatches no
\* event, and the caller observes the original error.
C8_FailureSilent ==
  ~lastOp.under.ok => (out = << >> /\ lastOp.seen = lastOp.under)

\* a read resolved with undefined, null, the empty text or no items
EmptyResult(v) == v.type \in {"undefined", "null"} \/ v.len = 0

\* C9: a clipboard read resolving with undefined or an empty result feeds no
\* signal; one resolving with content feeds exactly one clipboard-read
\* signal; the caller gets the resolved value.
C9_ClipboardRead ==
  (lastOp.op \in {"readText", "read"} /\ lastOp.under.ok)
    => /\ lastOp.seen = lastOp.under
       /\ IF EmptyResult(lastOp.under.val)
            THEN fed = << >> /\ out = << >>
            ELSE fed = <<ClipboardReadAccessed>>

\* C10: a granted request for video and audio dispatches camera/active then
\* microphone/active, provided neither was dispatched in the preceding
\* 500 ms; a request for one of them dispatches the one event.
C10_Step ==
  (lastOp'.op \in {"getUserMedia", "legacyGetUserMedia"} /\ lastOp'.under.ok)
    => LET cam == NotEmittedWithin(KeyOf(CameraActive), now')
           mic == NotEmittedWithin(KeyOf(MicrophoneActive), now')
       IN /\ (lastOp'.video /\ lastOp'.audio /\ cam /\ mic)
               => out' = <<CameraActive, MicrophoneActive>>
          /\ (lastOp'.video /\ ~lastOp'.audio /\ cam)
               => out' = <<CameraActive>>
          /\ (~lastOp'.video /\ lastOp'.audio /\ mic)
               => out' = <<MicrophoneActive>>
C10_MediaCapture == [][C10_Step]_vars

\* a second grant for video and audio, exactly 500 ms after a first one whose
\* tracks were stopped at once, with both events dispatched again
C10_Witness ==
  /\ lastOp.op = "getUserMedia" /\ lastOp.under.ok
  /\ lastOp.video /\ lastOp.audio
  /\ out = <<CameraActive, MicrophoneActive>>
  /\ now = StartTime + 500
  /\ KeyOf(Signal("camera", "stopped")) \in DOMAIN lastEmit
  /\ lastEmit[KeyOf(Signal("camera", "stopped"))] = StartTime
  /\ KeyOf(Signal("microphone", "stopped")) \in DOMAIN lastEmit
  /\ lastEmit[KeyOf(Signal("microphone", "stopped"))] = StartTime
----------------------------------------------------------------------------
(* Properties of the content script and of the service worker *)

Min(a, b) == IF a < b THEN a ELSE b

\* every forwarded event has been handed to the worker and saved
AllSaved == channel = {} /\ Saving = {}

\* C11: when n usage events have been submitted one after the other, each
\* saved before the next, Fetch logs answers with exactly min(n, 1000)
\* records: the min(n, 1000) events submitted last, the most recent first.
C11_SequentialLogBound ==
  (bgOp.op = "GET_LOGS" /\ AllSaved) =>
     LET logs == bgOp.reply.logs
         n == sentCount
     IN /\ Len(logs) = Min(n, MAX_LOGS)
        /\ \A i \in 1..Len(logs) : logs[i] = SequentialEntry(n - i + 1)

\* 1001 events were submitted and saved: the fetch answers with the events
\* 1001 down to 2, the oldest is evicted
C11_Witness ==
  /\ bgOp.op = "GET_LOGS"
  /\ AllSaved
  /\ sentCount = MAX_LOGS + 1
  /\ Len(bgOp.reply.logs) = MAX_LOGS
  /\ bgOp.reply.logs[1].id = MAX_LOGS + 1
  /\ bgOp.reply.logs[MAX_LOGS].id = 2

\* the ids of the records in the stored log
StoredIds == {StoredLogs(storage)[i].id : i \in 1..Len(StoredLogs(storage))}

\* C12: the saves of several submissions handled at once are serialized:
\* when all saves have completed, every event handed to the worker is in
\* the stored log, unless the 1000 bound evicted it or Clear logs removed it.
C12_NoEventLost ==
  AllSaved =>
    \A id \in received :
       \/ id \in StoredIds
       \/ id \in clearedIds
       \/ Len(StoredLogs(storage)) = MAX_LOGS

\* C15: once Clear logs is acknowledged, no record that was in the stored
\* log before the acknowledgement is in the answer of a later Fetch logs,
\* also when the save of a usage event was in flight at the clear.
C15_ClearedStayCleared ==
  bgOp.op = "GET_LOGS" =>
     \A i \in 1..Len(bgOp.reply.logs) : bgOp.reply.logs[i].id \notin clearedIds

\* C16: the content script makes exactly one submit attempt for each
\* PERMISSION_DETECTED event, carrying the kind and action of the event and
\* the page context read at that moment; a failed delivery leaves only a
\* diagnostic: the message is gone, it is not sent again, and neither the
\* page script nor the worker sees anything of it.
C16_Step ==
  /\ (bgOp' # bgOp /\ bgOp'.op = "PERMISSION_DETECTED") =>
       /\ \E logData \in channel' \ channel :
            /\ channel' = channel \cup {logData}
            /\ logData.id = bgOp'.id
            /\ logData.permissionType = bgOp'.detail.permissionType
            /\ logData.action = bgOp'.detail.action
            /\ logData.domain = Hostname
            /\ logData.timestamp = now
            /\ logData.isVisible = (visibilityState = "visible")
       /\ \A m \in channel : m.id # bgOp'.id
       /\ bgOp'.id \notin received
       /\ UNCHANGED <<pageVars, handlers, received, submitted>>
  /\ (bgOp' # bgOp /\ bgOp'.op = "sendFailed") =>
       /\ \E logData \in channel :
            /\ logData.id = bgOp'.id
            /\ channel' = channel \ {logData}
       /\ bgOp'.reply = SendFailedDebug
       /\ bgOp'.id \notin received'
       /\ UNCHANGED <<pageVars, handlers, storage, received, submitted, sentCount>>

C16_FireAndForget == [][C16_Step]_vars

\* the first event could not be delivered; the second, of a document that
\* is hidden by now, has just been forwarded
C16_Witness ==
  /\ bgOp.op = "PERMISSION_DETECTED"
  /\ bgOp.id = 2
  /\ received = {}
  /\ handlers = << >>
  /\ \E logData \in channel :
       /\ channel = {logData}
       /\ logData.id = 2
       /\ ~logData.isVisible
       /\ logData.timestamp = StartTime + 500

AlertsOff(settings) ==
  "notificationsEnabled" \in DOMAIN settings
    /\ settings.notificationsEnabled = FALSE

\* the handling of a usage event ends: with this record as the setting
\* consulted, no alert is raised when it has notificationsEnabled = false,
\* and otherwise one alert is raised unless the cooldown of its key runs
GatedBy(settings) ==
  LET logEntry == handlers[bgOp'.id].logEntry
  IN bgOp'.alerts =
       IF AlertsOff(settings)
            \/ IsCoolingDown(notificationTracker, NotificationKey(logEntry),
                             now)
         THEN << >>
         ELSE <<logEntry.id>>

\* the save of a usage event completes: its entry is the first of the
\* stored log and the badge counts one more, whatever the settings are
SavedAndCounted ==
  (bgOp' # bgOp /\ bgOp'.op = "saveLog.set") =>
     /\ StoredLogs(storage')[1] = handlers[bgOp'.id].logEntry
     /\ newLogsCount' = newLogsCount + 1
     /\ badgeText' = BadgeText(newLogsCount')
     /\ bgOp'.alerts = << >>

\* C20 as stated: the event is appended and counted whatever the settings
\* are, and the alert is gated by the settings stored when the save of the
\* event completed.
C20_AtSave ==
  /\ SavedAndCounted
  /\ (bgOp' # bgOp /\ bgOp'.op = "handled") =>
        GatedBy(handlers[bgOp'.id].settingsAtSave)

C20_AlertGatingAtSave == [][C20_AtSave]_vars

\* C20 amended: the event is appended and counted whatever the settings
\* are, and the alert is gated by the settings stored when the read of
\* getSettings is answered, which is after the save completed: no alert
\* when they have notificationsEnabled = false, an alert subject to the
\* cooldown when the field is true or absent.
C20_Step ==
  /\ SavedAndCounted
  /\ (bgOp' # bgOp /\ bgOp'.op = "handled") =>
        GatedBy(StoredSettings(storage))

C20_AlertGating == [][C20_Step]_vars

\* an event was handled with notificationsEnabled = false stored and no
\* cooldown running: no alert, the event is in the log and on the badge
C20_Witness ==
  /\ bgOp.op = "handled"
  /\ bgOp.alerts = << >>
  /\ AlertsOff(StoredSettings(storage))
  /\ notificationTracker = << >>
  /\ bgOp.id \in StoredIds
  /\ newLogsCount >= 1
  /\ badgeText = ToString(newLogsCount)

----------------------------------------------------------------------------
(* Further properties of the page-context script *)

\* a success callback of getCurrentPosition or of a watch was handled
LocationSuccessStep ==
  lastOp'.op \in {"getCurrentPosition", "watchCallback"} /\ lastOp'.under.ok

\* C13: a location signal rejected by the debouncer (by the unloading flag,
\* the visibility window, the 5-second rule or the 500 ms rule) dispatches
\* no event and leaves the debounce map, lastLogTime, lastVisibilityChange,
\* the unloading flag and the per-watch counters as they were.
C13_Step ==
  (LocationSuccessStep /\ out' = << >>) =>
     UNCHANGED <<loggedEvents, lastLogTime, lastVisibilityChange,
                 isUnloading, callbackCount>>

C13_RejectedNoEffect == [][C13_Step]_vars

\* a success callback of a watch that has counted a callback before
LaterWatchStep ==
  /\ lastOp'.op = "watchCallback"
  /\ lastOp'.under.ok
  /\ lastOp'.id \in DOMAIN callbackCount
  /\ callbackCount[lastOp'.id] >= 1

\* C14 as stated: continuous background updates are not logged: once a
\* success callback of a watch has been counted, the later success
\* callbacks of that watch dispatch no usage event, however long the watch
\* fires.
C14_Never == LaterWatchStep => out' = << >>

C14_Step ==
  LaterWatchStep =>
     (out' # << >> <=>
        /\ ~isUnloading
        /\ ~InVisibilityWindow(lastVisibilityChange, now')
        /\ now' - lastLogTime >= MIN_LOG_INTERVAL)

C17_Transparent ==
  /\ (lastOp.op \in {"getCurrentPosition", "watchCallback"}
      /\ lastOp.under.ok) =>
        (lastOp.calls = 1 /\ lastOp.seen = lastOp.under)
  /\ (lastOp.op \in {"getCurrentPosition", "watchCallback"}
      /\ ~lastOp.under.ok) =>
        (lastOp.calls = 0 /\ lastOp.seen = lastOp.under /\ out = << >>)
  /\ lastOp.op = "watchPosition" =>
        (lastOp.seen = lastOp.under /\ lastOp.under.val = Val("id", lastOp.id))

\* a position delivered to a watch while the page unloads: nothing is fed to
\* the debouncer and the page's callback has been invoked once
C17_Witness ==
  /\ lastOp.op = "watchCallback"
  /\ lastOp.under.ok
  /\ isUnloading
  /\ fed = << >>
  /\ lastOp.calls = 1
  /\ lastOp.seen = Outcome(TRUE, Position)


\* C18: for every track of a granted stream, each stop() and each 'ended'
\* report feeds one stopped signal to the debouncer, camera for a video
\* track and microphone for any other; the original stop has run and its
\* result is what the caller gets; the signal is dispatched unless an event
\* of the same (kind, stopped) key, of whatever track, was dispatched in the
\* 500 ms before.
C18_Step ==
  (lastOp'.op \in {"trackStop", "trackEnded"}) =>
     LET track == tracks[lastOp'.id]
         stopped == Signal(IF track.kind = "video" THEN "camera"
                                                   ELSE "microphone",
                           "stopped")
     IN /\ fed' = <<stopped>>
        /\ out' = IF NotEmittedWithin(KeyOf(stopped), now') THEN <<stopped>>
                                                            ELSE << >>
        /\ ~tracks'[lastOp'.id].live
        /\ lastOp'.seen = lastOp'.under

C18_TrackTermination == [][C18_Step]_vars

----------------------------------------------------------------------------
(* Properties of the alerts *)

\* C21: when showNotification runs for an event at time T (the settings
\* consulted allow alerts), no alert is raised if an alert of the event's
\* (kind, originHost) pair was raised less than 3000 ms before T, and one
\* alert is raised otherwise; so two alerts of a pair are 3000 ms or more
\* apart, the alerts of other pairs have no part in the decision and neither
\* has the purge of the tracker (lastAlert is never purged).
C21_Step ==
  (bgOp' # bgOp /\ bgOp'.op = "handled"
     /\ ~AlertsOff(StoredSettings(storage))) =>
    LET logEntry == handlers[bgOp'.id].logEntry
        pair == AlertPair(logEntry)
        recent == pair \in DOMAIN lastAlert /\ now - lastAlert[pair] < 3000
    IN /\ recent => bgOp'.alerts = << >>
       /\ ~recent => bgOp'.alerts = <<logEntry.id>>
       /\ \A p \in DOMAIN lastAlert' :
            (p \in DOMAIN lastAlert /\ lastAlert'[p] # lastAlert[p])
              => lastAlert'[p] - lastAlert[p] >= 3000

C21_AlertCooldown == [][C21_Step]_vars

\* three events handled one after the other: the first, of one pair, was
\* alerted before the second was forwarded at StartTime + 2900; the second,
\* of another pair, was alerted at StartTime + 13000 and removed the entry
\* of the first pair from the tracker; the third, of the first pair, is
\* alerted in the same instant
C21_Witness ==
  /\ bgOp.op = "handled" /\ bgOp.id = 3 /\ bgOp.alerts = <<3>>
  /\ now = StartTime + 13000
  /\ Len(StoredLogs(storage)) = 3
  /\ LET first == StoredLogs(storage)[3]
         second == StoredLogs(storage)[2]
         third == StoredLogs(storage)[1]
     IN /\ AlertPair(first) = AlertPair(third)
        /\ AlertPair(second) # AlertPair(first)
        /\ second.timestamp = StartTime + 2900
        /\ lastAlert[AlertPair(second)] = now
        /\ lastAlert[AlertPair(third)] = now
----------------------------------------------------------------------------
(* Properties of the service worker over a failing store *)

\* the step is this request of the popup
Request(name) == bgOp' # bgOp /\ bgOp'.op = name
\* the storage operation of the step failed
Failed == ~bgOp'.detail.ok

\* C22: Fetch logs answers with the empty sequence when no log record is
\* stored or the read fails, and with the stored log otherwise; Get
\* settings answers with {notificationsEnabled: true} when no settings
\* record is stored or the read fails, and with the stored record
\* otherwise; a failed write of a save, a clear or an update leaves the
\* store as it was, the save goes on to the count and the alert, the clear
\* and the update are acknowledged.
C22_Step ==
  /\ Request("GET_LOGS") =>
       /\ bgOp'.reply =
            [logs |-> IF Failed \/ "logs" \notin DOMAIN storage
                        THEN << >> ELSE storage.logs]
       /\ storage' = storage
  /\ Request("GET_SETTINGS") =>
       /\ bgOp'.reply =
            IF Failed \/ "settings" \notin DOMAIN storage
              THEN [notificationsEnabled |-> TRUE] ELSE storage.settings
       /\ storage' = storage
  /\ (Request("saveLog.get") /\ Failed) =>
       /\ storage' = storage
       /\ handlers'[bgOp'.id].pc = "settings"
  /\ (Request("saveLog.set") /\ Failed) =>
       /\ storage' = storage
       /\ handlers'[bgOp'.id].pc = "settings"
  /\ (Request("CLEAR_LOGS") /\ Failed) =>
       /\ storage' = storage
       /\ bgOp'.reply = [success |-> TRUE]
  /\ (Request("UPDATE_SETTINGS") /\ Failed) =>
       /\ storage' = storage
       /\ bgOp'.reply = [success |-> TRUE]

C22_DefaultsOnFailure == [][C22_Step]_vars

\* the read of Get settings failed over a store whose settings record
\* switches the alerts off and whose log holds an event: the answer is the
\* default record
C22_Witness ==
  /\ bgOp.op = "GET_SETTINGS"
  /\ ~bgOp.detail.ok
  /\ bgOp.reply = [notificationsEnabled |-> TRUE]
  /\ "settings" \in DOMAIN storage
  /\ storage.settings = [notificationsEnabled |-> FALSE]
  /\ Len(StoredLogs(storage)) >= 1
----------------------------------------------------------------------------
(* Properties of the purge of the debounce map *)

\* the entries of the map that are more than 5000 ms old at time t
OldEntries(m, t) == {k \in DOMAIN m : t - m[k] > 5000}

\* C23 as stated: after every evaluation of the debouncer, the signal
\* accepted or rejected, the debounce map holds no entry more than 5000 ms
\* old.
C23_AfterEvery ==
  fed' # << >> => OldEntries(loggedEvents', now') = {}

C23_PurgeEveryEvaluation == [][C23_AfterEvery]_vars

\* C23 amended: the purge runs on the accepted evaluations only.  After an
\* evaluation that dispatched the signal the map holds the key of the
\* signal with the time of the evaluation and, of its former entries,
\* exactly those not more than 5000 ms old; an evaluation that rejected the
\* signal leaves the map as it was, entries more than 5000 ms old included.
C23_Step ==
  Len(fed') = 1 =>
    LET K == KeyOf(fed'[1])
    IN /\ out' = fed' =>
            /\ DOMAIN loggedEvents' =
                 {K} \cup ((DOMAIN loggedEvents) \ OldEntries(loggedEvents, now'))
            /\ \A k \in DOMAIN loggedEvents' :
                 loggedEvents'[k] = IF k = K THEN now' ELSE loggedEvents[k]
       /\ out' = << >> => loggedEvents' = loggedEvents

C23_PurgeOnDispatch == [][C23_Step]_vars

\* a signal is rejected and the map still holds the entry of another key
\* that is more than 5000 ms old
C23_Witness ==
  /\ Len(fed) = 1 /\ out = << >>
  /\ OldEntries(loggedEvents, now) # {}

\* C24: for signals with non-decreasing timestamps, the debouncer and a
\* debouncer that is fed the same signals and never cleans its map dispatch
\* the same events: the same keys in the same order at the same times.
C24_PurgeIrrelevant == out = refOut

\* an event is dispatched and the purge removes the entry of another key,
\* more than 5000 ms old, which the map that is never cleaned keeps
C24_Witness ==
  /\ Len(out) = 1 /\ refOut = out
  /\ loggedEvents[KeyOf(out[1])] = now
  /\ \E k \in DOMAIN unpurged :
       /\ k \notin DOMAIN loggedEvents
       /\ now - unpurged[k] > 5000
----------------------------------------------------------------------------
(* Properties of the way from the page to the stored log *)

\* the stored log holds a record of this kind and action
Recorded(key) ==
  \E i \in 1..Len(StoredLogs(storage)) :
     EventKey(StoredLogs(storage)[i].permissionType,
              StoredLogs(storage)[i].action) = key

\* no message is on its way and no handlePermissionUsage call is running
Quiescent == channel = {} /\ handlers = << >>

\* C25: every successful use of an intercepted capability results in a
\* record in the stored log: once every message is delivered and handled,
\* the log holds a record of each kind and action a granted request has
\* dispatched (the first use of a kind is never a duplicate).
C25_EveryUseLogged ==
  Quiescent => \A key \in DOMAIN lastEmit : Recorded(key)
----------------------------------------------------------------------------
(* Properties of the location state *)

\* C26: lastLogTime is 0 while no location/accessed event has been
\* dispatched, and otherwise the time of the location/accessed event
\* dispatched last; a callback whose signal the 500 ms debounce dropped does
\* not advance it.
C26_LastLogTimeIsLastEmit ==
  lastLogTime = IF LocationKey \in DOMAIN lastEmit THEN lastEmit[LocationKey]
                                                   ELSE 0

\* C27: a location/accessed event is dispatched 500 ms or more after the
\* location/accessed event dispatched before it; if it is dispatched less
\* than 5000 ms after that event, the step is the first callback of a
\* watch, so two events dispatched for one-shot queries with no watch
\* callback between them are 5000 ms or more apart.
C27_Step ==
  (out' = <<LocationAccessed>> /\ LocationKey \in DOMAIN lastEmit) =>
     /\ now' - lastEmit[LocationKey] >= 500
     /\ now' - lastEmit[LocationKey] < 5000 =>
          /\ WatchStep
          /\ callbackCount[lastOp'.id] = 0
          /\ callbackCount'[lastOp'.id] = 1
     /\ OneShotStep => now' - lastEmit[LocationKey] >= 5000

C27_LocationSpacing == [][C27_Step]_vars

\* the first callback of the second watch is dispatched 2000 ms after the
\* page was loaded, the first watch having had its first callback before
C27_Witness ==
  /\ lastOp.op = "watchCallback" /\ lastOp.under.ok /\ lastOp.id = 2
  /\ out = <<LocationAccessed>>
  /\ callbackCount[2] = 1
  /\ 1 \in DOMAIN callbackCount /\ callbackCount[1] >= 1
  /\ now = StartTime + 2000
  /\ lastVisibilityChange = 0
  /\ ~isUnloading

\* the counters of the watches other than w are what they were
OtherCountersKept(w) ==
  \A v \in DOMAIN callbackCount' :
     v # w => (v \in DOMAIN callbackCount
                /\ callbackCount'[v] = callbackCount[v])

\* C28: a new watch has a counter of its own that starts at 0; a success
\* callback of a watch adds one to the counter of that watch, and to no
\* other, if the page is not unloading, also when the visibility window
\* rejects the callback, and leaves the counters alone if the page is
\* unloading; a callback that finds the counter at 1 or more is logged
\* only under the 5000 ms rule.
C28_Step ==
  /\ (lastOp'.op = "watchPosition" /\ lastOp' # lastOp) =>
       /\ lastOp'.id \notin DOMAIN callbackCount
       /\ callbackCount'[lastOp'.id] = 0
       /\ OtherCountersKept(lastOp'.id)
  /\ WatchStep =>
       /\ callbackCount'[lastOp'.id] =
            IF isUnloading THEN callbackCount[lastOp'.id]
                           ELSE callbackCount[lastOp'.id] + 1
       /\ OtherCountersKept(lastOp'.id)
       /\ (callbackCount[lastOp'.id] >= 1 /\ fed' # << >>) =>
            now' - lastLogTime >= 5000
       /\ (VisibleWithin2000(now') \/ isUnloading) => fed' = << >>

C28_PerWatchCounter == [][C28_Step]_vars

\* two callbacks of a watch fell into the visibility window: its counter is
\* 2 and no location event was ever logged
C28_Witness ==
  /\ lastOp.op = "watchCallback" /\ lastOp.under.ok
  /\ callbackCount[lastOp.id] = 2
  /\ ~isUnloading
  /\ VisibleWithin2000(now)
  /\ lastLogTime = 0
  /\ out = << >>
----------------------------------------------------------------------------
(* Properties of the stored log under interleaved requests *)

\* C29: whatever the interleaving of the steps of usage submissions, Clear
\* logs and Fetch logs, the stored log holds at most 1000 records, each of
\* them is the entry of an event handed to the worker, and no entry is in
\* the log twice.
C29_StoredLogSound ==
  LET logs == StoredLogs(storage)
  IN /\ Len(logs) <= MAX_LOGS
     /\ \A i \in 1..Len(logs) : logs[i] \in submitted
     /\ Cardinality({logs[i].id : i \in 1..Len(logs)}) = Len(logs)

\* the log held 999 records when two events were handed to the worker; both
\* saves read it before either wrote: the log holds 1000 records, the
\* oldest among them, and the entry of one of the two events
C29_Witness ==
  /\ Quiescent
  /\ sentCount = MAX_LOGS + 1
  /\ Len(StoredLogs(storage)) = MAX_LOGS
  /\ StoredLogs(storage)[MAX_LOGS].id = 1
  /\ StoredLogs(storage)[1].id = MAX_LOGS

\* C30: every signal of a key K that arrives 500 ms or more after the last
\* dispatched event of K, or before any event of K was dispatched, is
\* dispatched whatever signals of K were rejected since that event: a
\* rejected signal leaves the time recorded for K at that of the last
\* dispatched event of K.
C30_Step ==
  \A i \in 1..Len(fed') :
    LET K == KeyOf(fed'[i])
        emitted == \E j \in 1..Len(out') : out'[j] = fed'[i]
    IN /\ NotEmittedWithin(K, now') => emitted
       /\ ~emitted => /\ K \in DOMAIN loggedEvents'
                      /\ loggedEvents'[K] = lastEmit[K]
                      /\ lastEmit'[K] = lastEmit[K]
C30_WindowNotExtended == [][C30_Step]_vars

\* a clipboard write 100 ms after the one dispatched at the start is rejected
\* and the time recorded for its key is still that of the dispatched one, so
\* that the window of the key ends 400 ms later
C30_Witness ==
  /\ lastOp.op \in {"writeText", "write"}
  /\ fed = <<Signal("clipboard-write", "accessed")>>
  /\ out = << >>
  /\ now = StartTime + 100
  /\ loggedEvents[EventKey("clipboard-write", "accessed")] = StartTime
  /\ lastEmit[EventKey("clipboard-write", "accessed")] = StartTime

\* C31: whether a signal that is not a location signal is dispatched depends
\* only on the time recorded for its own (kind, action) key: it is
\* dispatched if and only if that key has no recorded time or its recorded
\* time is 500 ms old or more, whatever the signals of the other keys, the
\* unloading flag, the visibility changes and lastLogTime.
C31_Step ==
  \A i \in 1..Len(fed') :
    fed'[i].permissionType # "location" =>
      LET K == fed'[i].permissionType \o "-" \o fed'[i].action
      IN (\E j \in 1..Len(out') : out'[j] = fed'[i])
           <=> (K \notin DOMAIN loggedEvents
                  \/ now' - loggedEvents[K] >= DEBOUNCE_TIME)
C31_KeysIndependent == [][C31_Step]_vars

\* a stream with a video and an audio track is granted while the page is
\* being unloaded, in the instant of a change to visible and of a dispatched
\* location event: the camera and the microphone event are both dispatched
C31_Witness ==
  /\ lastOp.op = "getUserMedia"
  /\ isUnloading
  /\ lastVisibilityChange = now
  /\ lastLogTime = now
  /\ LocationKey \in DOMAIN loggedEvents /\ loggedEvents[LocationKey] = now
  /\ out = <<CameraActive, MicrophoneActive>>

\* the badge text that goes with a counter
ExpectedBadge(n) ==
  IF n = 0 THEN "" ELSE IF n <= 99 THEN ToString(n) ELSE "99+"

\* the step ends the saveLog of a handlePermissionUsage call: its write was
\* answered or failed, or its read failed
SaveFinished ==
  \/ bgOp'.op = "saveLog.set"
  \/ bgOp'.op = "saveLog.get" /\ ~bgOp'.detail.ok

\* the counter is never negative, one more after each finished save, also a
\* failed one, 0 after Reset badge, unchanged by every other step but Clear
\* logs, and the badge text goes with the counter after each update
BadgeStep ==
  /\ newLogsCount' >= 0
  /\ SaveFinished => newLogsCount' = newLogsCount + 1
  /\ bgOp'.op = "RESET_BADGE" => newLogsCount' = 0
  /\ (~SaveFinished /\ bgOp'.op \notin {"RESET_BADGE", "CLEAR_LOGS"})
       => UNCHANGED <<newLogsCount, badgeText>>
  /\ (SaveFinished \/ bgOp'.op = "RESET_BADGE"
        \/ newLogsCount' # newLogsCount \/ badgeText' # badgeText)
       => badgeText' = ExpectedBadge(newLogsCount')

\* C32 as stated: the counter is never negative, is increased by exactly one
\* for each handled usage event after its save step finished, also when the
\* save failed, and is set to 0 by Reset badge and by every Clear logs; after
\* each update the badge text is empty for 0, the decimal counter for 1..99
\* and '99+' above 99.
C32_ClearAlwaysResets ==
  [][BadgeStep /\ (bgOp'.op = "CLEAR_LOGS" => newLogsCount' = 0)]_vars

\* C32: the counter is never negative, is increased by exactly one for each
\* handled usage event after its save step finished, also when the save
\* failed, and is set to 0 by Reset badge and by a Clear logs whose write
\* was answered; a Clear logs whose write failed leaves the counter and the
\* badge as they were; after each update the badge text is empty for 0, the
\* decimal counter for 1..99 and '99+' above 99.
C32_Step ==
  /\ BadgeStep
  /\ bgOp'.op = "CLEAR_LOGS" =>
       IF bgOp'.detail.ok
         THEN newLogsCount' = 0 /\ badgeText' = ""
         ELSE UNCHANGED <<newLogsCount, badgeText>>
C32_BadgeCounter == [][C32_Step]_vars

\* the hundredth event was counted although its save failed, the badge
\* shows '99+', and a Clear logs whose write failed has left both
C32_Witness ==
  /\ bgOp.op = "CLEAR_LOGS" /\ ~bgOp.detail.ok
  /\ newLogsCount = 100
  /\ badgeText = "99+"
  /\ Len(StoredLogs(storage)) = 99
  /\ handlers = << >>
  /\ received = 1..100
====
